---- MODULE Spec2Model ----
(***************************************************************************)
(* Snapshot engine of the Super Token API: ledger pagination               *)
(* (queryAllPages), reconciliation planning, assembly and publication      *)
(* (takeSnapshot), pinned and batched balance reads (batchFetchBalances),  *)
(* the serving cache (tokenHoldersCache, getTokenHolders), the durable     *)
(* record (saveTokenHolders, loadTokenHolders) and the scheduler           *)
(* (loadInitialData, takeSnapshots, start).                                *)
(*                                                                         *)
(* Addresses are modelled as integers: the ledger's record id is           *)
(* "<account>-<token>" for one fixed token, so ascending id order is       *)
(* ascending account order.  Balances are integers; the decimal strings    *)
(* of the code are canonical, so the string "0" is the integer 0.          *)
(*                                                                         *)
(* Spec is the latest version on a first start with a ledger that honours  *)
(* the order it is asked for; SpecAnyLedger lets the ledger answer in any   *)
(* order and repeat accounts; SpecEarlierData starts on the data directory  *)
(* of an earlier deployment; SpecFirstVersion is the first version of       *)
(* takeSnapshot and batchFetchBalances (src/src/snapshot.ts);                *)
(* SpecVerifier follows one batchFetchBalances call read by read, with the  *)
(* attempts and backoff timers of getBalanceWithRetry, which the other      *)
(* specifications fold into one step per batch.  SpecRestart adds a        *)
(* restart of the process to Spec; SpecFair and SpecVerifierFair state     *)
(* that every awaited network call settles; SpecProjector applies          *)
(* calculateHolderBalance and SpecReader getTokenHolders to bounded sets   *)
(* of inputs; SpecRouter serves requests of the holders route over the     *)
(* tables of SpecReader; SpecTwoTokens is Spec with two configured tokens  *)
(* and a data directory that may hold a file for either.                   *)
(*                                                                         *)
(* The ledger holds records with all their pool memberships; a run sees of  *)
(* them what the query of its version selects (accountTokenSnapshots).      *)
(***************************************************************************)
EXTENDS Integers, Sequences, FiniteSets, TLC

\* ------------------------------------------------------------------ bounds
NumAccounts == 3
MaxBlock == 2
MaxPasses == 2
MaxItems == 2
MaxClock == 3
MaxReads == 4
MaxHolders == 3
MaxPage == 2

\* -------------------------------------------------------- program constants
\* pageSize of queryAllPages (1000 in the code), scaled down
pageSize == 2
\* RPC_BATCH_SIZE (100 in the code), scaled down
RPC_BATCH_SIZE == 2

\* maxRetries of batchFetchBalances
maxRetries == 3

\* UPDATE_INTERVAL (3600 s in the code), in ticks of the model clock: a
\* record is older than the interval when it was written before the tick at
\* which it is read
UPDATE_INTERVAL == 0

\* the tokens config can hold, in the iteration order of the nested loops
\* over config / chainConfig.tokens; an address in config is in lower case
TokenOrder == <<"k1", "k2">>

\* the ways a caller may write the address of a token: as config holds it,
\* or in capital letters
Spellings == {"k1", "K1", "k2", "K2"}

\* String.prototype.toLowerCase on these addresses
toLowerCase(tokenAddress) ==
    CASE tokenAddress = "K1" -> "k1"
      [] tokenAddress = "K2" -> "k2"
      [] OTHER -> tokenAddress

\* ------------------------------------------------------------- ledger data
\* the poolMemberships of an account as the ledger holds them: units,
\* syncedPerUnitFlowRate, isConnected and pool.perUnitFlowRate; a field a
\* query does not select is undefined in its response (<<>>)
NoPools == <<>>
PoolConnected ==
    << [units |-> 1, syncedPerUnitFlowRate |-> <<1>>,
        isConnected |-> <<TRUE>>, perUnitFlowRate |-> 1] >>
PoolDisconnected ==
    << [units |-> 1, syncedPerUnitFlowRate |-> <<1>>,
        isConnected |-> <<FALSE>>, perUnitFlowRate |-> 1] >>

AccountTokenSnapshot(a, bal, flow, blk, pools) ==
    [account |-> a, balanceUntilUpdatedAt |-> bal, totalNetFlowRate |-> flow,
     updatedAtBlockNumber |-> blk, updatedAtTimestamp |-> 1, poolMemberships |-> pools]

\* records the ledger may hold for the token
LedgerRecords ==
    { AccountTokenSnapshot(1, 2, 0, 1, NoPools),
      AccountTokenSnapshot(1, 1, 1, 1, NoPools),
      AccountTokenSnapshot(2, 0, 0, 1, NoPools),
      AccountTokenSnapshot(2, 1, 1, 1, NoPools),
      AccountTokenSnapshot(3, 1, 0, MaxBlock, NoPools),
      AccountTokenSnapshot(3, 1, 0, 1, PoolConnected),
      AccountTokenSnapshot(3, 1, 0, 1, PoolDisconnected) }

\* balanceOf(account) at a block height, as the chain answers it
balanceOf(a, b) == (a + b) % 3

\* ------------------------------------------------------------ pure helpers
Range(s) == { s[j] : j \in DOMAIN s }

Max(S) == CHOOSE x \in S : \A y \in S : y <= x

\* a relative index of Array.prototype.slice: a negative index counts from
\* the end of the array, and the result is clamped to 0..length
RelativeIndex(s, j) ==
    IF j < 0
    THEN (IF Len(s) + j < 0 THEN 0 ELSE Len(s) + j)
    ELSE (IF j < Len(s) THEN j ELSE Len(s))

\* Array.prototype.slice(from, to), 0-based, end exclusive
Slice(s, from, to) ==
    LET lo == RelativeIndex(s, from)
        hi == RelativeIndex(s, to)
    IN IF lo >= hi THEN <<>> ELSE SubSeq(s, lo + 1, hi)

\* a Record<string,string>: a function on the keys that were assigned
EmptyMap == [a \in {} |-> 0]
MapMerge(m1, m2) ==
    [a \in (DOMAIN m1) \cup (DOMAIN m2) |->
        IF a \in DOMAIN m2 THEN m2[a] ELSE m1[a]]
\* m[a] || "0"
OrZero(m, a) == IF a \in DOMAIN m THEN m[a] ELSE 0

\* getNetFlowRate throws (BigInt(undefined)) when a membership of the record
\* carries no syncedPerUnitFlowRate
getNetFlowRateThrows(snapshot) ==
    \E j \in DOMAIN snapshot.poolMemberships :
        snapshot.poolMemberships[j].syncedPerUnitFlowRate = <<>>

RECURSIVE SumSynced(_)
SumSynced(pms) ==
    IF pms = <<>> THEN 0
    ELSE Head(pms).syncedPerUnitFlowRate[1] * Head(pms).units + SumSynced(Tail(pms))

getNetFlowRate(snapshot) ==
    snapshot.totalNetFlowRate + SumSynced(snapshot.poolMemberships)

\* flowRateMap of takeSnapshot: the last record of an account wins
flowRateMap(snapshots) ==
    [a \in { snapshots[j].account : j \in DOMAIN snapshots } |->
        getNetFlowRate(snapshots[Max({ j \in DOMAIN snapshots : snapshots[j].account = a })])]

\* a test that does not look at the block the record was updated at
UsesSubgraphData_AnyBlock(snapshot, currentBlockNumber) ==
    /\ snapshot.totalNetFlowRate = 0
    /\ snapshot.poolMemberships = <<>>

\* the planner's test of takeSnapshot: use the subgraph balance as it is
UsesSubgraphData(snapshot, currentBlockNumber) ==
    /\ snapshot.updatedAtBlockNumber <= currentBlockNumber
    /\ snapshot.totalNetFlowRate = 0
    /\ snapshot.poolMemberships = <<>>

\* a planner that hands every account to the verifier
accountsNeedingRpc_All(snapshots, currentBlockNumber) ==
    [j \in DOMAIN snapshots |-> snapshots[j].account]

accountsNeedingRpc(snapshots, currentBlockNumber) ==
    LET NeedsRpc(s) == ~UsesSubgraphData(s, currentBlockNumber)
        need == SelectSeq(snapshots, NeedsRpc)
    IN [j \in DOMAIN need |-> need[j].account]

\* a planner that keeps the ledger balance of every record, trusted or not
subgraphBalances_EveryRecord(snapshots, currentBlockNumber) ==
    [a \in { snapshots[j].account : j \in DOMAIN snapshots } |->
        snapshots[Max({ j \in DOMAIN snapshots : snapshots[j].account = a })].balanceUntilUpdatedAt]

subgraphBalances(snapshots, currentBlockNumber) ==
    LET trusted == { j \in DOMAIN snapshots : UsesSubgraphData(snapshots[j], currentBlockNumber) }
    IN [a \in { snapshots[j].account : j \in trusted } |->
           snapshots[Max({ j \in trusted : snapshots[j].account = a })].balanceUntilUpdatedAt]

\* a comparator that also moves an element in front of its equals
ComesBefore_OrEqual(a, b) == a.balance >= b.balance

\* the comparator of nonZeroHolders.sort: balance descending, nothing else
ComesBefore(a, b) == a.balance > b.balance

\* Array.prototype.sort is stable: an element is placed after every element
\* that does not have to come after it
RECURSIVE InsertSorted(_, _)
InsertSorted(s, x) ==
    IF s = <<>> THEN <<x>>
    ELSE IF ComesBefore(x, Head(s)) THEN <<x>> \o s
         ELSE <<Head(s)>> \o InsertSorted(Tail(s), x)

RECURSIVE SortHolders(_)
SortHolders(s) ==
    IF s = <<>> THEN <<>>
    ELSE InsertSorted(SortHolders(SubSeq(s, 1, Len(s) - 1)), s[Len(s)])

\* holders.filter(h => h.balance !== "0")
NonZero(h) == h.balance # 0

\* takeSnapshot, from "Combine balances" to the sorted nonZeroHolders
nonZeroHolders(snapshots, currentBlockNumber, rpcBalances) ==
    LET combinedBalances == MapMerge(subgraphBalances(snapshots, currentBlockNumber), rpcBalances)
        frm == flowRateMap(snapshots)
        holders == [j \in DOMAIN snapshots |->
                      [address |-> snapshots[j].account,
                       balance |-> OrZero(combinedBalances, snapshots[j].account),
                       netFlowRate |-> OrZero(frm, snapshots[j].account)]]
    IN \* the filtered array is built once and then sorted
       CHOOSE sorted \in { SortHolders(kept) : kept \in { SelectSeq(holders, NonZero) } } : TRUE

TokenHolderSnapshot(updatedAt, blockNumber, holders) ==
    [updatedAt |-> updatedAt, blockNumber |-> blockNumber, holders |-> holders]

\* the value getTokenHolders and loadTokenHolders fall back to
EmptySnapshot == TokenHolderSnapshot(0, 0, <<>>)

\* ------------------------------------------------------------------ state
VARIABLES
    tokenHoldersCache,  \* key -> <<>> (no entry) or <<TokenHolderSnapshot>>
    files,              \* key -> <<>> (no file) or <<record of the JSON file>>
    head,               \* the chain head the RPC endpoint reports
    now,                \* Date.now()
    phase,              \* position of start(): "boot", "startup", "scheduled"
    ledger,             \* key -> the records the ledger holds, in its order
    runs,               \* per pass: the takeSnapshot call it is awaiting
    event,              \* what the last step returned to its caller, if anything
    built,              \* key -> the last snapshot handed to the cache as a whole,
                        \*        with the Origin of the run that built it, if any
    call                \* a batchFetchBalances call followed read by read

vars == <<tokenHoldersCache, files, head, now, phase, ledger, runs, event, built, call>>

\* the tokens of config: those the ledger holds a table for.  A key of the
\* cache is `${chainName}:${tokenAddress.toLowerCase()}` for one fixed chain.
Keys == DOMAIN ledger

IsConfigured(tokenAddress) == tokenAddress \in Keys
KeyOrder == SelectSeq(TokenOrder, IsConfigured)

Passes == 1..MaxPasses

IdleRun ==
    [pc |-> "idle", key |-> "", todo |-> <<>>, snapshots |-> <<>>, lastId |-> 0,
     currentBlockNumber |-> 0, blockNumber |-> 0, accounts |-> <<>>,
     balances |-> EmptyMap, i |-> 0,
     headReads |-> 0, headFailures |-> 0, pin |-> 0, balanceReads |-> 0,
     readHeights |-> {}, exhausted |-> {}, readAccounts |-> {},
     pageRequests |-> 0, queryFailures |-> 0, errorLists |-> 0,
     entryBefore |-> 0, fileBefore |-> 0, currentTimestamp |-> 0]

NoEvent == [op |-> "none"]

\* no batchFetchBalances call is followed read by read
IdleCall ==
    [pc |-> "none", accounts |-> <<>>, i |-> 0, blockNumber |-> 0,
     balances |-> EmptyMap, batchCount |-> 0, retriesCount |-> 0, reads |-> EmptyMap]

InFlight(p) == runs[p].pc # "idle"

\* a file the data directory can hold when the process starts: one written
\* by the first version of the program (takeSnapshot without the zero filter,
\* saveTokenHolders without blockNumber), as loadTokenHolders parses it
FirstVersionFile ==
    << [updatedAt |-> 1, blockNumber |-> 0,
        holders |-> << [address |-> 1, balance |-> 2, netFlowRate |-> 0],
                       [address |-> 2, balance |-> 0, netFlowRate |-> 0] >>] >>

\* a ledger that honours orderBy: id, orderDirection: asc holds one record
\* per account, in ascending order
IsAscending(records) ==
    \A j \in 1..(Len(records) - 1) : records[j].account < records[j + 1].account

Tables(n) == UNION { [1..m -> LedgerRecords] : m \in 0..n }

InitWith(tokens, tables, initialFiles) ==
    /\ ledger \in [tokens -> tables]
    /\ tokenHoldersCache = [k \in tokens |-> <<>>]
    /\ files \in [tokens -> initialFiles]
    /\ head = 1
    /\ now = 1
    /\ phase = "boot"
    /\ runs = [p \in Passes |-> IdleRun]
    /\ event = NoEvent
    /\ built = [k \in tokens |-> <<>>]
    /\ call = IdleCall

\* a configuration of one token
OneToken == {"k1"}

\* a first start: the data directory is empty
Init == InitWith(OneToken, { t \in Tables(NumAccounts) : IsAscending(t) }, {<<>>})

\* a ledger that may hold its records in any order and an account twice
InitAnyLedger == InitWith(OneToken, Tables(MaxItems), {<<>>})

\* a start on the data directory of an earlier deployment
InitEarlierData == InitWith(OneToken, { t \in Tables(NumAccounts) : IsAscending(t) }, {FirstVersionFile})

\* ------------------------------------------------------- store operations
\* loadTokenHolders: the parsed file, or the default when there is none
loadTokenHolders(file) ==
    IF file = <<>> THEN EmptySnapshot
    ELSE TokenHolderSnapshot(file[1].updatedAt, file[1].blockNumber, file[1].holders)

\* an update that assigns the fields of the existing entry one by one and
\* forgets blockNumber
updateTokenHoldersCache_FieldWise(cache, tokenAddress, data) ==
    LET key == toLowerCase(tokenAddress)
    IN IF cache[key] = <<>> THEN [cache EXCEPT ![key] = <<data>>]
       ELSE [cache EXCEPT ![key] =
               << [cache[key][1] EXCEPT !.updatedAt = data.updatedAt, !.holders = data.holders] >>]

\* an update that builds the table anew around the entry it assigns
updateTokenHoldersCache_Rebuilds(cache, tokenAddress, data) ==
    [k \in DOMAIN cache |-> IF k = toLowerCase(tokenAddress) THEN <<data>> ELSE <<>>]

\* updateTokenHoldersCache, and the "Update cache" assignment of takeSnapshot
updateTokenHoldersCache(cache, tokenAddress, data) ==
    LET key == toLowerCase(tokenAddress)
    IN [cache EXCEPT ![key] = <<data>>]

\* a save that writes the holders and the time, as the first version did
saveTokenHolders_HoldersOnly(fs, tokenAddress, holders, blockNumber, t) ==
    [fs EXCEPT ![toLowerCase(tokenAddress)] =
        << [updatedAt |-> t, blockNumber |-> 0, holders |-> holders] >>]

\* saveTokenHolders: the JSON document written to the file of the token,
\* `${chainName}_${tokenAddress.toLowerCase()}.json`
saveTokenHolders(fs, tokenAddress, holders, blockNumber, t) ==
    [fs EXCEPT ![toLowerCase(tokenAddress)] =
        << [updatedAt |-> t, blockNumber |-> blockNumber, holders |-> holders] >>]

\* a read that cuts the page out of the cached holders first and applies the
\* threshold to the page
getTokenHolders_SliceFirst(cache, tokenAddress, limit, offset, minBalanceWei) ==
    IF cache[toLowerCase(tokenAddress)] # <<>>
    THEN LET cached == cache[toLowerCase(tokenAddress)][1]
             AtLeast(h) == h.balance >= minBalanceWei
         IN TokenHolderSnapshot(cached.updatedAt, cached.blockNumber,
                SelectSeq(Slice(cached.holders, offset, offset + limit), AtLeast))
    ELSE EmptySnapshot

\* getTokenHolders: filter by BigInt(h.balance) >= BigInt(minBalanceWei),
\* then slice(offset, offset + limit)
getTokenHolders(cache, tokenAddress, limit, offset, minBalanceWei) ==
    IF cache[toLowerCase(tokenAddress)] # <<>>
    THEN LET cached == cache[toLowerCase(tokenAddress)][1]
             AtLeast(h) == h.balance >= minBalanceWei
         IN TokenHolderSnapshot(cached.updatedAt, cached.blockNumber,
                Slice(SelectSeq(cached.holders, AtLeast), offset, offset + limit))
    ELSE EmptySnapshot

\* ------------------------------------------------------------- scheduling
\* the updatedAt of a cache entry or of a file, -1 when there is none: every
\* assignment of an entry and every write of a file carries a Date.now() of
\* its own, so the stamp tells which assignment the entry is from
Stamp(slot) == IF slot = <<>> THEN -1 ELSE slot[1].updatedAt

\* takeSnapshot up to its first await (the first axios.post of queryAllPages);
\* entryBefore and fileBefore record the stamps of the cache entry and of the
\* file of the key as the call finds them
StartedRun(key, todo, cache, fs) ==
    [IdleRun EXCEPT !.pc = "queryAllPages", !.key = key, !.todo = todo,
                    !.pageRequests = 1,
                    !.entryBefore = Stamp(cache[key]), !.fileBefore = Stamp(fs[key])]

\* a clock-bounded model: every run in flight may still publish once
MayStart == now + Cardinality({ p \in Passes : InFlight(p) }) < MaxClock

\* a takeSnapshot whose promise never settles: the loop that awaits it
\* waits for ever
Return_NeverSettles(p, result) ==
    /\ event' = NoEvent
    /\ runs' = [runs EXCEPT ![p].pc = "pending"]
    /\ phase' = phase

\* takeSnapshot returns to the loop that awaits it, which calls the next one
Return(p, result) ==
    /\ event' = result
    /\ IF runs[p].todo # <<>> /\ MayStart
       THEN /\ runs' = [runs EXCEPT ![p] = StartedRun(Head(runs[p].todo), Tail(runs[p].todo),
                                                      tokenHoldersCache', files')]
            /\ phase' = phase
       ELSE /\ runs' = [runs EXCEPT ![p] = IdleRun]
            /\ phase' = IF phase = "startup" THEN "scheduled" ELSE phase

\* whether the ledger and the chain answered every request of a run: no
\* response carried an error list and no balance read failed for good
Answered(r) == r.errorLists = 0 /\ r.exhausted = {}

\* what is remembered of the run that built a snapshot: the block number it
\* planned with and whether all its requests were answered
Origin(r) == [currentBlockNumber |-> r.currentBlockNumber, answered |-> Answered(r)]

\* what a returning takeSnapshot call did: its outcome, the snapshot it
\* published (<<>> if none), its local state when it returned and, if it
\* published, what was the last snapshot handed to the cache until then
ResultOf(p, r, outcome, published) ==
    [op |-> "takeSnapshot", pass |-> p, outcome |-> outcome,
     published |-> published, run |-> r,
     replaced |-> IF published = <<>> THEN <<>> ELSE built[r.key]]

\* a takeSnapshot that lets the error out: the loop that awaits it rejects,
\* and with it the start() or the interval callback that called the loop
Fail_Propagates(p, r, outcome) ==
    /\ UNCHANGED <<tokenHoldersCache, files, now, built>>
    /\ event' = ResultOf(p, r, "threw", <<>>)
    /\ runs' = [runs EXCEPT ![p] = IdleRun]
    /\ phase' = "stopped"

\* the outer catch of takeSnapshot, and the return of its inner catch
Fail(p, r, outcome) ==
    /\ UNCHANGED <<tokenHoldersCache, files, now, built>>
    /\ Return(p, ResultOf(p, r, outcome, <<>>))

\* a publication that stamps the snapshot with the block number of the
\* planner
Publish_PlannerBlock(p, r, saveOk) ==
    LET holders == nonZeroHolders(r.snapshots, r.currentBlockNumber, r.balances)
        snapshot == TokenHolderSnapshot(now + 1, r.currentBlockNumber, holders)
    IN /\ now' = now + 1
       /\ tokenHoldersCache' = updateTokenHoldersCache(tokenHoldersCache, r.key, snapshot)
       /\ files' = IF saveOk
                   THEN saveTokenHolders(files, r.key, holders, r.currentBlockNumber, now + 1)
                   ELSE files
       /\ built' = [built EXCEPT ![r.key] = <<snapshot, Origin(r)>>]
       /\ Return(p, ResultOf(p, r, IF saveOk THEN "published" ELSE "saveFailed", <<snapshot>>))

\* takeSnapshot from "Combine balances" to its end: assemble, update the
\* cache, save the file (fs.writeFileSync may throw into the outer catch);
\* the snapshot object is built once
Publish(p, r, saveOk) ==
    \E snapshot \in { TokenHolderSnapshot(now + 1, r.blockNumber,
                          nonZeroHolders(r.snapshots, r.currentBlockNumber, r.balances)) } :
       /\ now' = now + 1
       /\ tokenHoldersCache' = updateTokenHoldersCache(tokenHoldersCache, r.key, snapshot)
       /\ files' = IF saveOk
                   THEN saveTokenHolders(files, r.key, snapshot.holders, r.blockNumber, now + 1)
                   ELSE files
       /\ built' = [built EXCEPT ![r.key] = <<snapshot, Origin(r)>>]
       /\ Return(p, ResultOf(p, r, IF saveOk THEN "published" ELSE "saveFailed", <<snapshot>>))

\* the file of a token: `${chainName}_${tokenAddress.toLowerCase()}.json`
fileOf(fs, tokenAddress) == fs[toLowerCase(tokenAddress)]

\* the first loop of loadInitialData: the file of every token is loaded and
\* handed to updateTokenHoldersCache, token by token
RECURSIVE loadedCache(_, _, _)
loadedCache(cache, fs, tokens) ==
    IF tokens = <<>> THEN cache
    ELSE loadedCache(
            updateTokenHoldersCache(cache, Head(tokens), loadTokenHolders(fileOf(fs, Head(tokens)))),
            fs, Tail(tokens))

\* dataAge of loadInitialData, with the clock reading it is computed from
dataAge(data, clock) == clock - data.updatedAt

\* a startup that stops looking for stale tokens at the first it finds
tokensToUpdate_FirstOnly(fs, tokens, clock) ==
    LET IsStale(k) == dataAge(loadTokenHolders(fileOf(fs, k)), clock) > UPDATE_INTERVAL
        all == SelectSeq(tokens, IsStale)
    IN IF all = <<>> THEN <<>> ELSE <<Head(all)>>

\* tokensToUpdate of loadInitialData: the tokens whose dataAge is greater
\* than UPDATE_INTERVAL, in the order of config
tokensToUpdate(fs, tokens, clock) ==
    LET IsStale(k) == dataAge(loadTokenHolders(fileOf(fs, k)), clock) > UPDATE_INTERVAL
    IN SelectSeq(tokens, IsStale)

\* loadInitialData up to its first await: every file is loaded into the
\* cache, the stale tokens are queued and the first of them is started;
\* clock is the Date.now() the ages are computed from
LoadInitialData(clock) ==
    /\ phase = "boot"
    /\ tokenHoldersCache' = loadedCache(tokenHoldersCache, files, KeyOrder)
    /\ built' = [k \in Keys |-> <<loadTokenHolders(files[k])>>]
    /\ LET stale == tokensToUpdate(files, KeyOrder, clock)
       IN IF stale # <<>>
          THEN /\ runs' = [runs EXCEPT ![1] = StartedRun(Head(stale), Tail(stale),
                                                         tokenHoldersCache', files)]
               /\ phase' = "startup"
          ELSE /\ runs' = runs
               /\ phase' = "scheduled"
    /\ event' = NoEvent
    /\ UNCHANGED <<files, head, now, ledger, call>>

\* the slot a new pass is kept in: the first that holds no pass in flight
FreeSlot(p) == ~InFlight(p) /\ \A q \in 1..(p - 1) : InFlight(q)

\* a firing of setInterval(takeSnapshots): a new pass over all keys, whether
\* or not an earlier pass is still running
takeSnapshots(p) ==
    /\ phase = "scheduled"
    /\ FreeSlot(p)
    /\ MayStart
    /\ runs' = [runs EXCEPT ![p] = StartedRun(Head(KeyOrder), Tail(KeyOrder),
                                              tokenHoldersCache, files)]
    /\ event' = NoEvent
    /\ UNCHANGED <<tokenHoldersCache, files, head, now, phase, ledger, call, built>>

\* ------------------------------------------------------------ ledger pager
\* the page a request with cursor lastId is answered with: the first
\* pageSize records of the table with id_gt: lastId
LedgerPage(table, lastId) ==
    LET After(rec) == rec.account > lastId
    IN Slice(SelectSeq(table, After), 0, pageSize)

\* what the query of takeSnapshot selects of a record: of the memberships
\* only those with isConnected: true, and of a membership units and
\* pool.perUnitFlowRate
IsConnected(pm) == pm.isConnected = <<TRUE>>

accountTokenSnapshots(page) ==
    [j \in DOMAIN page |->
        LET connected == SelectSeq(page[j].poolMemberships, IsConnected)
        IN [page[j] EXCEPT !.poolMemberships =
               [m \in DOMAIN connected |->
                   [connected[m] EXCEPT !.syncedPerUnitFlowRate = <<>>,
                                        !.isConnected = <<>>]]]]

\* the request failed (axios.post rejects), the response carries an error
\* list, or it carries a page
QueryError == [kind |-> "throw", items |-> <<>>]
ErrorList == [kind |-> "errors", items |-> <<>>]
PageOf(page) == [kind |-> "page", items |-> page]

\* takeSnapshot between the return of queryAllPages and its next await
\* (rpcClient.getBlockNumber): building flowRateMap calls getNetFlowRate on
\* every record
AfterPaging(p, r) ==
    IF \E j \in DOMAIN r.snapshots : getNetFlowRateThrows(r.snapshots[j])
    THEN Fail(p, r, "failed:flowRate")
    ELSE /\ runs' = [runs EXCEPT ![p] = [r EXCEPT !.pc = "getBlockNumber"]]
         /\ event' = NoEvent
         /\ UNCHANGED <<tokenHoldersCache, files, now, phase, built>>

\* a pager that also stops after a page of pageSize records
queryAllPages_StopsOnFullPage(r, response) ==
    CASE response.kind = "throw" ->
           [kind |-> "throw", run |-> [r EXCEPT !.queryFailures = @ + 1]]
      [] response.kind = "errors" ->
           [kind |-> "return", run |-> [r EXCEPT !.errorLists = @ + 1]]
      [] OTHER ->
           [kind |-> "return", run |-> [r EXCEPT !.snapshots = r.snapshots \o response.items]]

\* a pager that takes the id of the first record of a page as its cursor
queryAllPages_CursorOfFirst(r, response) ==
    CASE response.kind = "throw" ->
           [kind |-> "throw", run |-> [r EXCEPT !.queryFailures = @ + 1]]
      [] response.kind = "errors" ->
           [kind |-> "return", run |-> [r EXCEPT !.errorLists = @ + 1]]
      [] OTHER ->
           LET items == r.snapshots \o response.items IN
           IF Len(response.items) < pageSize
           THEN [kind |-> "return", run |-> [r EXCEPT !.snapshots = items]]
           ELSE [kind |-> "await",
                 run |-> [r EXCEPT !.snapshots = items,
                                   !.lastId = response.items[1].account,
                                   !.pageRequests = @ + 1]]

\* one iteration of the loop of queryAllPages, the awaited response having
\* arrived: axios.post rejected ("throw"), the loop was left and the items
\* are returned ("return"), or the next page is requested ("await")
queryAllPages(r, response) ==
    CASE response.kind = "throw" ->
           [kind |-> "throw", run |-> [r EXCEPT !.queryFailures = @ + 1]]
      [] response.kind = "errors" ->
           [kind |-> "return", run |-> [r EXCEPT !.errorLists = @ + 1]]
      [] OTHER ->
           LET items == r.snapshots \o response.items IN
           IF Len(response.items) < pageSize
           THEN [kind |-> "return", run |-> [r EXCEPT !.snapshots = items]]
           ELSE [kind |-> "await",
                 run |-> [r EXCEPT !.snapshots = items,
                                   !.lastId = response.items[Len(response.items)].account,
                                   !.pageRequests = @ + 1]]

\* a caller that goes on with the records it has when a request fails
awaitQueryAllPages_Continues(p, response) ==
    LET paged == queryAllPages(runs[p], response) IN
    /\ runs[p].pc = "queryAllPages"
    /\ CASE paged.kind \in {"throw", "return"} -> AfterPaging(p, paged.run)
         [] OTHER ->
              /\ runs' = [runs EXCEPT ![p] = paged.run]
              /\ event' = NoEvent
              /\ UNCHANGED <<tokenHoldersCache, files, now, phase, built>>
    /\ UNCHANGED <<head, ledger, call>>

\* takeSnapshot while it awaits queryAllPages
awaitQueryAllPages(p, response) ==
    LET paged == queryAllPages(runs[p], response) IN
    /\ runs[p].pc = "queryAllPages"
    /\ CASE paged.kind = "throw" -> Fail(p, paged.run, "failed:query")
         [] paged.kind = "return" -> AfterPaging(p, paged.run)
         [] OTHER ->
              /\ runs' = [runs EXCEPT ![p] = paged.run]
              /\ event' = NoEvent
              /\ UNCHANGED <<tokenHoldersCache, files, now, phase, built>>
    /\ UNCHANGED <<head, ledger, call>>

\* ---------------------------------------------------------------- planner
\* takeSnapshot: the awaited rpcClient.getBlockNumber() settles; the records
\* are classified; without accounts to verify the run goes on to publish,
\* otherwise batchFetchBalances runs up to its own getBlockNumber
getBlockNumber(p, ok, saveOk) ==
    LET r == runs[p] IN
    /\ r.pc = "getBlockNumber"
    /\ IF ~ok
       THEN Fail(p, [r EXCEPT !.headFailures = @ + 1], "failed:head")
       ELSE LET need == accountsNeedingRpc(r.snapshots, head)
                planned == [r EXCEPT !.currentBlockNumber = head,
                                     !.blockNumber = head,
                                     !.accounts = need]
            IN IF need = <<>>
               THEN Publish(p, planned, saveOk)
               ELSE /\ runs' = [runs EXCEPT ![p] = [planned EXCEPT !.pc = "pin"]]
                    /\ event' = NoEvent
                    /\ UNCHANGED <<tokenHoldersCache, files, now, phase, built>>
    /\ UNCHANGED <<head, ledger, call>>

\* --------------------------------------------------------------- verifier
\* a verifier that, when it cannot read the chain head, goes on with the
\* block number of the planner
pinBlockNumber_FallsBack(p, ok) ==
    LET r == runs[p] IN
    /\ r.pc = "pin"
    /\ runs' = [runs EXCEPT ![p] =
                  [r EXCEPT !.pc = "batch",
                            !.blockNumber = IF ok THEN head ELSE r.currentBlockNumber,
                            !.pin = IF ok THEN head ELSE r.currentBlockNumber,
                            !.headReads = @ + 1,
                            !.headFailures = IF ok THEN @ ELSE @ + 1,
                            !.i = 0]]
    /\ event' = NoEvent
    /\ UNCHANGED <<tokenHoldersCache, files, now, phase, built, head, ledger, call>>

\* batchFetchBalances: client.getBlockNumber() settles; on failure the call
\* throws and takeSnapshot returns from its inner catch
pinBlockNumber(p, ok) ==
    LET r == runs[p] IN
    /\ r.pc = "pin"
    /\ IF ~ok
       THEN Fail(p, [r EXCEPT !.headReads = @ + 1, !.headFailures = @ + 1], "failed:pin")
       ELSE /\ runs' = [runs EXCEPT ![p] =
                          [r EXCEPT !.pc = "batch", !.blockNumber = head, !.pin = head,
                                    !.headReads = @ + 1, !.i = 0]]
            /\ event' = NoEvent
            /\ UNCHANGED <<tokenHoldersCache, files, now, phase, built>>
    /\ UNCHANGED <<head, ledger, call>>

\* a read without the blockNumber option is answered at the latest block
ReadHeight_Latest(r) == head

\* the block height a balance read of the call is made at
ReadHeight(r) == r.blockNumber

\* a batch whose reads are answered with the balances of the chain head at
\* the time of the batch
BatchBalances_AtHead(balances, batchAccounts, failed, height) ==
    IF failed # {} THEN balances
    ELSE MapMerge(balances,
            [a \in Range(batchAccounts) |-> balanceOf(a, head)])

\* Promise.all over the reads of a batch: it rejects when one read rejects,
\* and then the catch of the batch loop adds nothing to balances
BatchBalances(balances, batchAccounts, failed, height) ==
    IF failed # {} THEN balances
    ELSE MapMerge(balances,
            [a \in Range(batchAccounts) |-> balanceOf(a, height)])

\* a batch loop that hands over to the assembly after its first batch
processBatch_PublishesEarly(p, failed, saveOk) ==
    LET r == runs[p]
        batchAccounts == Slice(r.accounts, r.i, r.i + RPC_BATCH_SIZE)
    IN
    /\ r.pc = "batch"
    /\ failed \subseteq DOMAIN batchAccounts
    /\ \E after \in { [r EXCEPT
                !.balances = BatchBalances(r.balances, batchAccounts, failed, ReadHeight(r)),
                !.i = r.i + RPC_BATCH_SIZE,
                !.balanceReads = @ + Len(batchAccounts),
                !.readHeights = @ \cup {ReadHeight(r)},
                !.readAccounts = @ \cup Range(batchAccounts),
                !.exhausted = @ \cup { batchAccounts[j] : j \in failed }] } :
          Publish(p, after, saveOk)
    /\ UNCHANGED <<head, ledger, call>>

\* one iteration of the batch loop of batchFetchBalances: failed holds the
\* positions of the batch whose read failed on every attempt
processBatch(p, failed, saveOk) ==
    LET r == runs[p]
        batchAccounts == Slice(r.accounts, r.i, r.i + RPC_BATCH_SIZE)
    IN
    /\ r.pc = "batch"
    /\ failed \subseteq DOMAIN batchAccounts
    /\ \E after \in { [r EXCEPT
                !.balances = BatchBalances(r.balances, batchAccounts, failed, ReadHeight(r)),
                !.i = r.i + RPC_BATCH_SIZE,
                !.balanceReads = @ + Len(batchAccounts),
                !.readHeights = @ \cup {ReadHeight(r)},
                !.readAccounts = @ \cup Range(batchAccounts),
                !.exhausted = @ \cup { batchAccounts[j] : j \in failed }] } :
          IF after.i < Len(r.accounts)
          THEN /\ runs' = [runs EXCEPT ![p] = after]
               /\ event' = NoEvent
               /\ UNCHANGED <<tokenHoldersCache, files, now, phase, built>>
          ELSE Publish(p, after, saveOk)
    /\ UNCHANGED <<head, ledger, call>>

\* ------------------------------------------------------------ environment
\* the chain produces a block
AdvanceHead ==
    /\ head < MaxBlock
    /\ head' = head + 1
    /\ event' = NoEvent
    /\ UNCHANGED <<tokenHoldersCache, files, now, phase, ledger, call, runs, built>>

\* the defaults of the router: limit 100 (here: every holder), offset 0,
\* minBalanceWei '1'
Limits == {NumAccounts + MaxItems}
Offsets == {0}
MinBalances == {1}

\* the holders route: a query parameter is <<>> when the request omits it
\* and <<v>> when it carries v; limit defaults to '100' and is capped at
\* 1000000, offset defaults to '0', minBalanceWei to '1'
holdersRoute(cache, key, limitParam, offsetParam, minBalanceWeiParam) ==
    LET asked == IF limitParam = <<>> THEN 100 ELSE limitParam[1]
        limit == IF asked < 1000000 THEN asked ELSE 1000000
        offset == IF offsetParam = <<>> THEN 0 ELSE offsetParam[1]
        minBalanceWei == IF minBalanceWeiParam = <<>> THEN 1 ELSE minBalanceWeiParam[1]
    IN getTokenHolders(cache, key, limit, offset, minBalanceWei)

\* a reader that takes the page out of the cached array (splice instead of
\* slice)
ReadHolders_TakesPage(key, limit, offset, minBalanceWei) ==
    LET result == getTokenHolders(tokenHoldersCache, key, limit, offset, minBalanceWei)
        Left(h) == h \notin Range(result.holders)
    IN /\ event' = [op |-> "getTokenHolders", key |-> key, limit |-> limit,
                     offset |-> offset, minBalanceWei |-> minBalanceWei, result |-> result]
       /\ tokenHoldersCache' =
             IF tokenHoldersCache[key] = <<>> THEN tokenHoldersCache
             ELSE [tokenHoldersCache EXCEPT
                      ![key] = << [@[1] EXCEPT !.holders = SelectSeq(@, Left)] >>]
       /\ UNCHANGED <<files, head, now, phase, ledger, call, runs, built>>

\* a reader that stores the default it returns for a token without entry
ReadHolders_KeepsDefault(key, limit, offset, minBalanceWei) ==
    /\ event' = [op |-> "getTokenHolders", key |-> key, limit |-> limit,
                  offset |-> offset, minBalanceWei |-> minBalanceWei,
                  result |-> getTokenHolders(tokenHoldersCache, key, limit, offset, minBalanceWei)]
    /\ tokenHoldersCache' =
          IF tokenHoldersCache[toLowerCase(key)] = <<>>
          THEN updateTokenHoldersCache(tokenHoldersCache, key, EmptySnapshot)
          ELSE tokenHoldersCache
    /\ UNCHANGED <<files, head, now, phase, ledger, call, runs, built>>

\* the REST router serves a request with getTokenHolders
ReadHolders(key, limit, offset, minBalanceWei) ==
    /\ event' = [op |-> "getTokenHolders", key |-> key, limit |-> limit,
                  offset |-> offset, minBalanceWei |-> minBalanceWei,
                  result |-> getTokenHolders(tokenHoldersCache, key, limit, offset, minBalanceWei)]
    /\ UNCHANGED <<tokenHoldersCache, files, head, now, phase, ledger, call, runs, built>>

\* the process starts right after the last reading of the clock, or later
StartUp == \E clock \in {now, now + 1} : LoadInitialData(clock)

Tick == \E p \in Passes : takeSnapshots(p)

Paginate ==
    \E p \in Passes :
        /\ InFlight(p)
        /\ \E response \in {QueryError, ErrorList,
                          PageOf(accountTokenSnapshots(
                              LedgerPage(ledger[runs[p].key], runs[p].lastId)))} :
               awaitQueryAllPages(p, response)

Plan == \E p \in Passes, ok \in BOOLEAN, saveOk \in BOOLEAN : getBlockNumber(p, ok, saveOk)

Pin == \E p \in Passes, ok \in BOOLEAN : pinBlockNumber(p, ok)

Verify ==
    \E p \in Passes, failed \in SUBSET (1..RPC_BATCH_SIZE), saveOk \in BOOLEAN :
        processBatch(p, failed, saveOk)

Serve ==
    \E key \in Keys, limit \in Limits, offset \in Offsets, minBalanceWei \in MinBalances :
        ReadHolders(key, limit, offset, minBalanceWei)

Next ==
    \/ StartUp
    \/ Tick
    \/ Paginate
    \/ Plan
    \/ Pin
    \/ Verify
    \/ AdvanceHead
    \/ Serve

Spec == Init /\ [][Next]_vars

SpecAnyLedger == InitAnyLedger /\ [][Next]_vars

SpecEarlierData == InitEarlierData /\ [][Next]_vars

\* -------------------------------------------------- two configured tokens
\* config holds two tokens, and the data directory may hold a file that an
\* earlier run of this version wrote for one or both of them
TwoTokens == {"k1", "k2"}

EarlierFile ==
    << [updatedAt |-> 1, blockNumber |-> 1,
        holders |-> << [address |-> 2, balance |-> 1, netFlowRate |-> 0] >>] >>

\* the table of a token is empty, or holds an account the planner trusts,
\* or one it hands to the verifier
SmallTables ==
    { <<>>,
      << AccountTokenSnapshot(1, 2, 0, 1, NoPools) >>,
      << AccountTokenSnapshot(2, 1, 1, 1, NoPools) >> }

InitTwoTokens == InitWith(TwoTokens, SmallTables, {<<>>, EarlierFile})

SpecTwoTokens == InitTwoTokens /\ [][Next]_vars

\* ------------------------------------------------------- the first version
\* takeSnapshot, batchFetchBalances and calculateHolderBalance of
\* src/src/snapshot.ts with the scheduler of src/src/index.ts: every account
\* is read, at the latest block, and a read that fails is answered '0'

\* what the query of the first version selects of a record: every
\* membership, with isConnected, units and pool.perUnitFlowRate
accountTokenSnapshots_v1(page) ==
    [j \in DOMAIN page |->
        [page[j] EXCEPT !.poolMemberships =
            [m \in DOMAIN page[j].poolMemberships |->
                [page[j].poolMemberships[m] EXCEPT !.syncedPerUnitFlowRate = <<>>]]]]

RECURSIVE PoolFlow(_, _)
PoolFlow(pms, connected) ==
    IF pms = <<>> THEN 0
    ELSE (IF Head(pms).isConnected = <<connected>>
          THEN Head(pms).perUnitFlowRate * Head(pms).units ELSE 0)
         + PoolFlow(Tail(pms), connected)

\* a projection that counts what every membership accrues, connected or
\* not, into the balance
calculateHolderBalance_EveryPool(snapshot, currentTimestamp) ==
    LET deltaT == currentTimestamp - snapshot.updatedAtTimestamp
    IN [address |-> snapshot.account,
        balance |-> snapshot.balanceUntilUpdatedAt
                      + snapshot.totalNetFlowRate * deltaT
                      + PoolFlow(snapshot.poolMemberships, TRUE) * deltaT
                      + PoolFlow(snapshot.poolMemberships, FALSE) * deltaT,
        claimableBalance |-> PoolFlow(snapshot.poolMemberships, FALSE) * deltaT,
        netFlowRate |-> snapshot.totalNetFlowRate,
        lastUpdatedAt |-> snapshot.updatedAtTimestamp,
        hasPoolMembership |-> snapshot.poolMemberships # <<>>]

\* calculateHolderBalance: deltaT is currentTimestamp - updatedAtTimestamp,
\* whatever its sign
calculateHolderBalance(snapshot, currentTimestamp) ==
    LET deltaT == currentTimestamp - snapshot.updatedAtTimestamp
    IN [address |-> snapshot.account,
        balance |-> snapshot.balanceUntilUpdatedAt
                      + snapshot.totalNetFlowRate * deltaT
                      + PoolFlow(snapshot.poolMemberships, TRUE) * deltaT,
        claimableBalance |-> PoolFlow(snapshot.poolMemberships, FALSE) * deltaT,
        netFlowRate |-> snapshot.totalNetFlowRate,
        lastUpdatedAt |-> snapshot.updatedAtTimestamp,
        hasPoolMembership |-> snapshot.poolMemberships # <<>>]

\* takeSnapshot up to its first await; currentTimestamp is taken here
StartedRun_v1(key, todo, cache, fs) ==
    [StartedRun(key, todo, cache, fs) EXCEPT !.currentTimestamp = now]

Return_v1(p, result) ==
    /\ event' = result
    /\ IF runs[p].todo # <<>> /\ MayStart
       THEN /\ runs' = [runs EXCEPT ![p] = StartedRun_v1(Head(runs[p].todo), Tail(runs[p].todo),
                                                         tokenHoldersCache', files')]
            /\ phase' = phase
       ELSE /\ runs' = [runs EXCEPT ![p] = IdleRun]
            /\ phase' = IF phase = "startup" THEN "scheduled" ELSE phase

\* the catch of takeSnapshot
Fail_v1(p, r, outcome) ==
    /\ UNCHANGED <<tokenHoldersCache, files, now, built>>
    /\ Return_v1(p, ResultOf(p, r, outcome, <<>>))

\* takeSnapshot from "Update holders with real balances" to its end
Publish_v1(p, r, saveOk) ==
    LET calculatedHolders ==
            [j \in DOMAIN r.snapshots |-> calculateHolderBalance(r.snapshots[j], r.currentTimestamp)]
        holders ==
            SortHolders([j \in DOMAIN calculatedHolders |->
                [calculatedHolders[j] EXCEPT
                    !.balance = IF calculatedHolders[j].address \in DOMAIN r.balances
                                THEN r.balances[calculatedHolders[j].address]
                                ELSE @]])
        snapshot == [updatedAt |-> now + 1, holders |-> holders]
    IN /\ now' = now + 1
       /\ tokenHoldersCache' = [tokenHoldersCache EXCEPT ![r.key] = <<snapshot>>]
       /\ files' = IF saveOk THEN [files EXCEPT ![r.key] = <<snapshot>>] ELSE files
       /\ built' = [built EXCEPT ![r.key] = <<snapshot>>]
       /\ Return_v1(p, ResultOf(p, r, IF saveOk THEN "published" ELSE "saveFailed", <<snapshot>>))

\* start of src/src/index.ts: loadInitialData reads the files and keeps
\* nothing, then the first takeSnapshots pass is awaited
start_v1 ==
    /\ phase = "boot"
    /\ runs' = [runs EXCEPT ![1] = StartedRun_v1(Head(KeyOrder), Tail(KeyOrder),
                                                 tokenHoldersCache, files)]
    /\ phase' = "startup"
    /\ event' = NoEvent
    /\ UNCHANGED <<tokenHoldersCache, files, head, now, ledger, call, built>>

\* a firing of cron.schedule(UPDATE_INTERVAL, takeSnapshots)
takeSnapshots_v1(p) ==
    /\ phase = "scheduled"
    /\ FreeSlot(p)
    /\ MayStart
    /\ runs' = [runs EXCEPT ![p] = StartedRun_v1(Head(KeyOrder), Tail(KeyOrder),
                                                 tokenHoldersCache, files)]
    /\ event' = NoEvent
    /\ UNCHANGED <<tokenHoldersCache, files, head, now, phase, ledger, call, built>>

\* takeSnapshot between the return of queryAllPages and the first await of
\* batchFetchBalances; without accounts the batch loop awaits nothing
AfterPaging_v1(p, r, saveOk) ==
    LET allAccounts == [j \in DOMAIN r.snapshots |-> r.snapshots[j].account]
    IN IF allAccounts = <<>>
       THEN Publish_v1(p, r, saveOk)
       ELSE /\ runs' = [runs EXCEPT ![p] = [r EXCEPT !.pc = "batch", !.accounts = allAccounts,
                                                    !.i = 0]]
            /\ event' = NoEvent
            /\ UNCHANGED <<tokenHoldersCache, files, now, phase, built>>

\* takeSnapshot while it awaits queryAllPages
awaitQueryAllPages_v1(p, response, saveOk) ==
    LET paged == queryAllPages(runs[p], response) IN
    /\ runs[p].pc = "queryAllPages"
    /\ CASE paged.kind = "throw" -> Fail_v1(p, paged.run, "failed:query")
         [] paged.kind = "return" -> AfterPaging_v1(p, paged.run, saveOk)
         [] OTHER ->
              /\ runs' = [runs EXCEPT ![p] = paged.run]
              /\ event' = NoEvent
              /\ UNCHANGED <<tokenHoldersCache, files, now, phase, built>>
    /\ UNCHANGED <<head, ledger, call>>

\* the results of a batch: the per-read catch answers '0' for a read that
\* failed, and every result is added to balances
BatchBalances_v1(balances, batchAccounts, failed, height) ==
    MapMerge(balances,
        [a \in Range(batchAccounts) |->
            IF \E j \in failed : batchAccounts[j] = a THEN 0 ELSE balanceOf(a, height)])

\* one iteration of the batch loop: balanceOf without a block number is
\* answered at the latest block
processBatch_v1(p, failed, saveOk) ==
    LET r == runs[p]
        batchAccounts == Slice(r.accounts, r.i, r.i + RPC_BATCH_SIZE)
    IN
    /\ r.pc = "batch"
    /\ failed \subseteq DOMAIN batchAccounts
    /\ LET after == [r EXCEPT
                !.balances = BatchBalances_v1(r.balances, batchAccounts, failed, head),
                !.i = r.i + RPC_BATCH_SIZE,
                !.balanceReads = @ + Len(batchAccounts),
                !.readHeights = @ \cup {head},
                !.readAccounts = @ \cup Range(batchAccounts),
                !.exhausted = @ \cup { batchAccounts[j] : j \in failed }]
       IN IF after.i < Len(r.accounts)
          THEN /\ runs' = [runs EXCEPT ![p] = after]
               /\ event' = NoEvent
               /\ UNCHANGED <<tokenHoldersCache, files, now, phase, built>>
          ELSE Publish_v1(p, after, saveOk)
    /\ UNCHANGED <<head, ledger, call>>

Tick_v1 == \E p \in Passes : takeSnapshots_v1(p)

Paginate_v1 ==
    \E p \in Passes :
        /\ InFlight(p)
        /\ \E saveOk \in BOOLEAN,
              response \in {QueryError, ErrorList,
                            PageOf(accountTokenSnapshots_v1(
                                LedgerPage(ledger[runs[p].key], runs[p].lastId)))} :
               awaitQueryAllPages_v1(p, response, saveOk)

Verify_v1 ==
    \E p \in Passes, failed \in SUBSET (1..RPC_BATCH_SIZE), saveOk \in BOOLEAN :
        processBatch_v1(p, failed, saveOk)

NextFirstVersion ==
    \/ start_v1
    \/ Tick_v1
    \/ Paginate_v1
    \/ Verify_v1
    \/ AdvanceHead

SpecFirstVersion == Init /\ [][NextFirstVersion]_vars

\* ------------------------------------------- the verifier, read by read
\* batchFetchBalances with getBalanceWithRetry (src/unnamed/part_005): every
\* await of the call and of the reads it starts is a step of its own

\* the delay before the next attempt, after the retries-th failure
backoffDelay_Fixed(retries) == 1000

backoffDelay(retries) == 1000 * 2^(retries - 1)

\* getBalanceWithRetry up to its first await: balanceOf has been called
StartedRead(batch) ==
    [pc |-> "balanceOf", retries |-> 0, attempts |-> 1, delays |-> <<>>, batch |-> batch]

\* getBalanceWithRetry when the awaited balanceOf settles: it returns, it
\* throws after the last attempt, or it awaits the timer of the backoff
getBalanceWithRetry(read, ok) ==
    IF ok THEN [read EXCEPT !.pc = "fulfilled"]
    ELSE IF read.retries + 1 >= maxRetries
         THEN [read EXCEPT !.pc = "rejected", !.retries = @ + 1]
         ELSE [read EXCEPT !.pc = "setTimeout", !.retries = @ + 1,
                           !.delays = Append(@, backoffDelay(read.retries + 1))]

\* a batch loop that cuts its batches one account too long
NextBatch_OneTooLong(c, i) ==
    IF i < Len(c.accounts)
    THEN LET batchAccounts == Slice(c.accounts, i, i + RPC_BATCH_SIZE + 1)
         IN [c EXCEPT !.pc = "Promise.all", !.i = i, !.batchCount = @ + 1,
                      !.reads = MapMerge(@, [a \in Range(batchAccounts) |->
                                                StartedRead(c.batchCount + 1)])]
    ELSE [c EXCEPT !.pc = "returned", !.i = i]

\* the head of the batch loop: the reads of the next batch are started, or
\* the call returns
NextBatch(c, i) ==
    IF i < Len(c.accounts)
    THEN LET batchAccounts == Slice(c.accounts, i, i + RPC_BATCH_SIZE)
         IN [c EXCEPT !.pc = "Promise.all", !.i = i, !.batchCount = @ + 1,
                      !.reads = MapMerge(@, [a \in Range(batchAccounts) |->
                                                StartedRead(c.batchCount + 1)])]
    ELSE [c EXCEPT !.pc = "returned", !.i = i]

\* the awaited Promise.all of the current batch after a read has settled: it
\* rejects with the first read that rejects (the catch goes on with the next
\* batch), it fulfils when every read has (the results are added to balances)
SettledBatch(c) ==
    LET batchAccounts == Slice(c.accounts, c.i, c.i + RPC_BATCH_SIZE)
    IN IF c.pc # "Promise.all" THEN c
       ELSE IF \E a \in Range(batchAccounts) : c.reads[a].pc = "rejected"
            THEN NextBatch(c, c.i + RPC_BATCH_SIZE)
            ELSE IF \A a \in Range(batchAccounts) : c.reads[a].pc = "fulfilled"
                 THEN NextBatch(
                        [c EXCEPT !.balances =
                            MapMerge(@, [a \in Range(batchAccounts) |->
                                            balanceOf(a, c.blockNumber)])],
                        c.i + RPC_BATCH_SIZE)
                 ELSE c

\* batchFetchBalances is called and awaits client.getBlockNumber()
batchFetchBalances(accounts) ==
    /\ call.pc = "none"
    /\ call' = [IdleCall EXCEPT !.pc = "getBlockNumber", !.accounts = accounts]
    /\ UNCHANGED <<tokenHoldersCache, files, head, now, phase, ledger, runs, event, built>>

\* client.getBlockNumber() settles: the call throws, or enters the batch loop
clientGetBlockNumber(ok) ==
    /\ call.pc = "getBlockNumber"
    /\ call' = IF ok THEN NextBatch([call EXCEPT !.blockNumber = head], 0)
               ELSE [call EXCEPT !.pc = "threw"]
    /\ UNCHANGED <<tokenHoldersCache, files, head, now, phase, ledger, runs, event, built>>

\* the balanceOf a read of account a awaits settles
balanceOfSettles(a, ok) ==
    /\ a \in DOMAIN call.reads
    /\ call.reads[a].pc = "balanceOf"
    /\ LET read == getBalanceWithRetry(call.reads[a], ok)
       IN call' = SettledBatch([call EXCEPT !.reads[a] = read,
                                            !.retriesCount = IF ok THEN @ ELSE @ + 1])
    /\ UNCHANGED <<tokenHoldersCache, files, head, now, phase, ledger, runs, event, built>>

\* the timer of a backoff fires: the loop of getBalanceWithRetry calls
\* balanceOf again
setTimeoutFires(a) ==
    /\ a \in DOMAIN call.reads
    /\ call.reads[a].pc = "setTimeout"
    /\ call' = [call EXCEPT !.reads[a].pc = "balanceOf", !.reads[a].attempts = @ + 1]
    /\ UNCHANGED <<tokenHoldersCache, files, head, now, phase, ledger, runs, event, built>>

CallVerifier == \E n \in 1..MaxReads : batchFetchBalances([j \in 1..n |-> j])

PinCall == \E ok \in BOOLEAN : clientGetBlockNumber(ok)

SettleRead == \E a \in 1..MaxReads, ok \in BOOLEAN : balanceOfSettles(a, ok)

FireTimer == \E a \in 1..MaxReads : setTimeoutFires(a)

NextVerifier ==
    \/ CallVerifier
    \/ PinCall
    \/ SettleRead
    \/ FireTimer

InitVerifier == InitWith(OneToken, {<<>>}, {<<>>})

SpecVerifier == InitVerifier /\ [][NextVerifier]_vars

\* ------------------------------------------------------------ fair runs
\* the network call a run awaits settles, with a result or with an error:
\* the axios.post of queryAllPages, rpcClient.getBlockNumber of takeSnapshot,
\* client.getBlockNumber of batchFetchBalances, the Promise.all of a batch
Settle(p) ==
    \/ /\ InFlight(p)
       /\ \E response \in {QueryError, ErrorList,
                            PageOf(accountTokenSnapshots(
                                LedgerPage(ledger[runs[p].key], runs[p].lastId)))} :
              awaitQueryAllPages(p, response)
    \/ \E ok \in BOOLEAN, saveOk \in BOOLEAN : getBlockNumber(p, ok, saveOk)
    \/ \E ok \in BOOLEAN : pinBlockNumber(p, ok)
    \/ \E failed \in SUBSET (1..RPC_BATCH_SIZE), saveOk \in BOOLEAN : processBatch(p, failed, saveOk)

\* the scheduler, the runs and the chain, without the reader (a read changes
\* nothing a run depends on)
NextFair ==
    \/ StartUp
    \/ Tick
    \/ \E p \in Passes : Settle(p)
    \/ AdvanceHead

\* every network call eventually returns
SpecFair == Init /\ [][NextFair]_vars /\ \A p \in Passes : WF_vars(Settle(p))

\* a batchFetchBalances call followed read by read, where every
\* getBlockNumber and balanceOf eventually settles and every timer fires
SpecVerifierFair ==
    InitVerifier /\ [][NextVerifier]_vars
        /\ WF_vars(PinCall) /\ WF_vars(SettleRead) /\ WF_vars(FireTimer)

\* ------------------------------------------------------------- a restart
\* the process exits (the cache, the timers and every call in flight are
\* gone, the data directory stays) and is started again: start() runs
\* loadInitialData up to its first await.  The event records what the last
\* step before the exit returned, if it was a takeSnapshot call.
StartAgain(clock) ==
    /\ phase # "boot"
    /\ now < MaxClock
    /\ tokenHoldersCache' = loadedCache([c \in Keys |-> <<>>], files, KeyOrder)
    /\ built' = [k \in Keys |-> <<loadTokenHolders(files[k])>>]
    /\ LET stale == tokensToUpdate(files, KeyOrder, clock)
       IN IF stale # <<>>
          THEN /\ runs' = [[p \in Passes |-> IdleRun] EXCEPT
                              ![1] = StartedRun(Head(stale), Tail(stale),
                                                tokenHoldersCache', files)]
               /\ phase' = "startup"
          ELSE /\ runs' = [p \in Passes |-> IdleRun]
               /\ phase' = "scheduled"
    /\ event' = [op |-> "restart",
                  last |-> IF event.op = "takeSnapshot" THEN event ELSE NoEvent]
    /\ UNCHANGED <<files, head, now, ledger, call>>

Restart == \E clock \in {now, now + 1} : StartAgain(clock)

NextRestart ==
    \/ Next
    \/ Restart

SpecRestart == Init /\ [][NextRestart]_vars

\* ---------------------------------------------------------- the projector
\* calculateHolderBalance over the records a page of the first version can
\* carry and the timestamps takeSnapshot can pass: Math.floor(Date.now() /
\* 1000) of the local clock, which may be behind the block time of
\* updatedAtTimestamp
ProjectedPools ==
    UNION { [1..n -> [units : {0, 2}, syncedPerUnitFlowRate : {<<1>>},
                      isConnected : {<<TRUE>>, <<FALSE>>}, perUnitFlowRate : {0, 3}]]
            : n \in 0..MaxItems }

ProjectedRecords ==
    { [AccountTokenSnapshot(1, bal, flow, 1, pools) EXCEPT !.updatedAtTimestamp = t] :
        bal \in {0, 5}, flow \in {-1, 0, 2}, pools \in ProjectedPools, t \in 0..MaxClock }

InitProjector ==
    /\ ledger \in [OneToken -> { <<record>> : record \in ProjectedRecords }]
    /\ tokenHoldersCache = [k \in Keys |-> <<>>]
    /\ built = [k \in Keys |-> <<>>]
    /\ files = [k \in Keys |-> <<>>]
    /\ head = 1
    /\ now = 1
    /\ phase = "scheduled"
    /\ runs = [p \in Passes |-> IdleRun]
    /\ event = NoEvent
    /\ call = IdleCall

\* snapshots.map(snapshot => calculateHolderBalance(snapshot, currentTimestamp))
\* for one record of the page
Project(key, currentTimestamp) ==
    /\ LET snapshot == accountTokenSnapshots_v1(ledger[key])[1]
       IN event' = [op |-> "calculateHolderBalance", snapshot |-> snapshot,
                    currentTimestamp |-> currentTimestamp,
                    result |-> calculateHolderBalance(snapshot, currentTimestamp)]
    /\ UNCHANGED <<tokenHoldersCache, files, head, now, phase, ledger, call, runs, built>>

NextProjector == \E key \in Keys, currentTimestamp \in 0..MaxClock : Project(key, currentTimestamp)

SpecProjector == InitProjector /\ [][NextProjector]_vars

\* ------------------------------------------------------------ the reader
\* getTokenHolders over the snapshots the table can hold and the parameters
\* a request can carry.  A snapshot in the table was published by a run
\* (non-zero balances, largest first) or loaded from the file of an earlier
\* deployment (any balances, in the order of the file); or the table holds
\* no entry for the token, which was neither loaded nor published.
HolderBalances == {0, 50, 100}

HolderLists ==
    UNION { [1..n -> [address : 1..NumAccounts, balance : HolderBalances, netFlowRate : {0}]]
            : n \in 0..MaxHolders }

HeldSnapshots ==
    { TokenHolderSnapshot(2, 1, hs) :
        hs \in { l \in HolderLists :
                   \A i, j \in DOMAIN l : i # j => l[i].address # l[j].address } }

PageLimits == 0..MaxPage
PageOffsets == 0..MaxPage
Thresholds == {0, 1, 60, 100}

InitReader ==
    /\ ledger = [k \in OneToken |-> <<>>]
    /\ tokenHoldersCache \in [Keys -> { <<s>> : s \in HeldSnapshots } \cup {<<>>}]
    /\ built = tokenHoldersCache
    /\ files = [k \in Keys |-> <<>>]
    /\ head = 1
    /\ now = 2
    /\ phase = "scheduled"
    /\ runs = [p \in Passes |-> IdleRun]
    /\ event = NoEvent
    /\ call = IdleCall

ServePage ==
    \E key \in Keys, limit \in PageLimits, offset \in PageOffsets, minBalanceWei \in Thresholds :
        ReadHolders(key, limit, offset, minBalanceWei)

NextReader == ServePage

SpecReader == InitReader /\ [][NextReader]_vars

\* ------------------------------------------------------ the holders route
\* GET /v0/tokens/:tokenAddress/holders over the tables of SpecReader.  A
\* query parameter is <<>> when the request omits it and <<v>> when it
\* carries the decimal numeral of v; the route checks neither the sign nor
\* the size of limit and offset.
holdersResponse(cache, tokenAddress, limitParam, offsetParam, minBalanceWeiParam) ==
    LET asked == IF limitParam = <<>> THEN 100 ELSE limitParam[1]
        limit == IF asked < 1000000 THEN asked ELSE 1000000
        offset == IF offsetParam = <<>> THEN 0 ELSE offsetParam[1]
        result == holdersRoute(cache, tokenAddress, limitParam, offsetParam, minBalanceWeiParam)
    IN [tokenAddress |-> tokenAddress,
        blockNumber |-> result.blockNumber,
        limit |-> limit,
        offset |-> offset,
        total |-> Len(result.holders),
        holders |-> result.holders]

GetHolders(tokenAddress, limitParam, offsetParam, minBalanceWeiParam) ==
    /\ event' = [op |-> "GET holders", key |-> tokenAddress,
                  limitParam |-> limitParam, offsetParam |-> offsetParam,
                  minBalanceWeiParam |-> minBalanceWeiParam,
                  response |-> holdersResponse(tokenHoldersCache, tokenAddress,
                                               limitParam, offsetParam, minBalanceWeiParam)]
    /\ UNCHANGED <<tokenHoldersCache, files, head, now, phase, ledger, call, runs, built>>

\* the numerals a request can carry: below zero, within the array, past its
\* end, and past the cap of the route
LimitParams == {<<>>} \cup { <<v>> : v \in (-2..MaxPage) \cup {1000001} }
OffsetParams == {<<>>} \cup { <<v>> : v \in -2..MaxPage }
MinBalanceWeiParams == {<<>>, <<0>>, <<60>>}

ServeRequest ==
    \E tokenAddress \in Keys, limitParam \in LimitParams, offsetParam \in OffsetParams,
       minBalanceWeiParam \in MinBalanceWeiParams :
        GetHolders(tokenAddress, limitParam, offsetParam, minBalanceWeiParam)

NextRouter == ServeRequest

SpecRouter == InitReader /\ [][NextRouter]_vars

\* ================================================================ claims
ReturnedSnapshot == event.op = "takeSnapshot"
PublishedSnapshot == ReturnedSnapshot /\ event.published # <<>>
Addresses(holders) == { holders[j].address : j \in DOMAIN holders }

\* C1: when a takeSnapshot run returns after a pagination error, a chain-head
\* read failure or a verifier failure, the cache entry and the file of its key
\* are what they were when the run started: they are from the same assignment
\* and the same write
C1_FailedRunLeavesStore ==
    (ReturnedSnapshot /\ event.outcome \in {"failed:query", "failed:head", "failed:pin"}) =>
        /\ Stamp(tokenHoldersCache[event.run.key]) = event.run.entryBefore
        /\ Stamp(files[event.run.key]) = event.run.fileBefore

\* C2: what getTokenHolders returns is drawn from one snapshot that was built
\* as a whole, the last one handed to the cache: its updatedAt, its
\* blockNumber, and holders of that snapshot only
C2_ReadIsOneSnapshot ==
    event.op = "getTokenHolders" =>
        LET whole == IF built[event.key] = <<>> THEN EmptySnapshot ELSE built[event.key][1]
        IN /\ event.result.updatedAt = whole.updatedAt
           /\ event.result.blockNumber = whole.blockNumber
           /\ \A j \in DOMAIN event.result.holders :
                 \E i \in DOMAIN whole.holders : whole.holders[i] = event.result.holders[j]

\* a read of a published snapshot while a run for the same key is verifying
C2_Witness ==
    /\ event.op = "getTokenHolders"
    /\ event.result.updatedAt >= 2
    /\ event.result.holders # <<>>
    /\ \E p \in Passes : runs[p].pc = "batch" /\ runs[p].key = event.key

\* C3: at most one takeSnapshot run per key is in progress at any time
C3_SingleFlight ==
    \A k \in Keys : Cardinality({ p \in Passes : InFlight(p) /\ runs[p].key = k }) <= 1

IsOrdered(holders) ==
    \A i, j \in DOMAIN holders :
        i < j => \/ holders[i].balance > holders[j].balance
                 \/ /\ holders[i].balance = holders[j].balance
                    /\ holders[i].address <= holders[j].address

\* C4: the holders of a published snapshot are ordered by balance descending,
\* holders of equal balance by address ascending
C4_HoldersOrdered == PublishedSnapshot => IsOrdered(event.published[1].holders)

\* a published snapshot with two holders of equal balance
C4_Witness ==
    /\ PublishedSnapshot
    /\ \E i, j \in DOMAIN event.published[1].holders :
          /\ i # j
          /\ event.published[1].holders[i].balance = event.published[1].holders[j].balance

\* C5: no snapshot in the cache has a holder whose balance is "0"
C5_NoZeroBalanceInCache ==
    \A k \in Keys :
        tokenHoldersCache[k] # <<>> =>
            \A j \in DOMAIN tokenHoldersCache[k][1].holders :
                tokenHoldersCache[k][1].holders[j].balance # 0

\* C6: no address appears in two holder records of a published snapshot
C6_NoAddressTwice ==
    PublishedSnapshot =>
        \A i, j \in DOMAIN event.published[1].holders :
            i # j => event.published[1].holders[i].address # event.published[1].holders[j].address

PinnedReads(r) ==
    /\ r.headReads = 1
    /\ r.readHeights \subseteq {r.pin}

\* C7: a batchFetchBalances call reads the chain head once, makes every
\* balance read at the height that read returned, and returns that height as
\* blockNumber (which takeSnapshot publishes)
C7_OnePinnedHeight ==
    /\ \A p \in Passes : runs[p].pc = "batch" => PinnedReads(runs[p])
    /\ (PublishedSnapshot /\ event.run.accounts # <<>>) =>
          /\ PinnedReads(event.run)
          /\ event.run.readHeights = {event.run.pin}
          /\ event.published[1].blockNumber = event.run.pin

\* a call of two batches returned while the chain head had moved on after
\* the pin
C7_Witness ==
    /\ PublishedSnapshot
    /\ event.run.balanceReads > RPC_BATCH_SIZE
    /\ head # event.run.pin

\* C8: a run whose chain-head read failed goes no further: it has issued no
\* balance read, publishes nothing, and cache and files stay as they are
C8_HeadFailureAborts ==
    [][ /\ \A p \in Passes : runs'[p].headFailures = 0
        /\ (event'.op = "takeSnapshot" /\ event'.run.headFailures > 0) =>
              /\ event'.run.balanceReads = 0
              /\ event'.published = <<>>
              /\ tokenHoldersCache' = tokenHoldersCache
              /\ files' = files
      ]_vars

\* the chain-head read of the verifier failed for a run with accounts to
\* verify
C8_Witness ==
    /\ ReturnedSnapshot
    /\ event.run.headFailures = 1
    /\ event.run.headReads = 1
    /\ Len(event.run.accounts) >= 2

\* C9: when the reads of exactly one account fail on every attempt, the run
\* publishes, and the snapshot holds every other verified account whose
\* balance at the pinned block is not zero
C9_OneFailureKeepsTheOthers ==
    (ReturnedSnapshot /\ Cardinality(event.run.exhausted) = 1) =>
        /\ event.published # <<>>
        /\ \A j \in DOMAIN event.run.accounts :
              LET a == event.run.accounts[j] IN
              (a \notin event.run.exhausted /\ balanceOf(a, event.run.pin) # 0)
                 => a \in Addresses(event.published[1].holders)

\* C10: an account whose balance reads failed on every attempt has no entry
\* in the balances of batchFetchBalances
C10_NoEntryForFailedAccount ==
    /\ \A p \in Passes : \A a \in runs[p].exhausted : a \notin DOMAIN runs[p].balances
    /\ ReturnedSnapshot =>
          \A a \in event.run.exhausted : a \notin DOMAIN event.run.balances

\* the runs there are to speak of: those in flight and the one that returned
RunsSeen == { runs[p] : p \in { q \in Passes : InFlight(q) } }
             \cup (IF ReturnedSnapshot THEN {event.run} ELSE {})

\* a run whose planner has classified the records
Planned(r) == r.currentBlockNumber > 0

PagedAccounts(r) == { r.snapshots[j].account : j \in DOMAIN r.snapshots }

\* the accounts the planner of run r classified Trusted, NeedsVerification
TrustedAccounts(r) ==
    { r.snapshots[j].account :
        j \in { i \in DOMAIN r.snapshots : UsesSubgraphData(r.snapshots[i], r.currentBlockNumber) } }
NeedsVerificationAccounts(r) ==
    { r.snapshots[j].account :
        j \in { i \in DOMAIN r.snapshots : ~UsesSubgraphData(r.snapshots[i], r.currentBlockNumber) } }

\* the balances the holders of address a carry in a holder list
ShownBalances(holders, a) ==
    { holders[j].balance : j \in { i \in DOMAIN holders : holders[i].address = a } }

\* C11: in a published snapshot every ledger account carries the verified
\* balance if the RPC result set has it, else the ledger balance if it was
\* classified Trusted, else it is unresolved and absent (zero balances are
\* dropped); an account classified NeedsVerification is never shown with
\* anything but its verified balance
C11_MergePrecedence ==
    PublishedSnapshot =>
        \A j \in DOMAIN event.run.snapshots :
            LET s == event.run.snapshots[j]
                a == s.account
                shown == ShownBalances(event.published[1].holders, a)
                trusted == UsesSubgraphData(s, event.run.currentBlockNumber)
            IN /\ a \in DOMAIN event.run.balances =>
                     shown = {event.run.balances[a]} \ {0}
               /\ (a \notin DOMAIN event.run.balances /\ trusted) =>
                     shown = {s.balanceUntilUpdatedAt} \ {0}
               /\ (a \notin DOMAIN event.run.balances /\ ~trusted) => shown = {}
               /\ (~trusted /\ shown # {}) =>
                     shown = {balanceOf(a, event.run.pin)}

\* a published snapshot of a run with an account left unresolved by the
\* verifier and a Trusted account shown with its ledger balance
C11_Witness ==
    /\ PublishedSnapshot
    /\ NeedsVerificationAccounts(event.run) \ DOMAIN event.run.balances # {}
    /\ \E a \in TrustedAccounts(event.run) :
          ShownBalances(event.published[1].holders, a) # {}

\* the classification the design asks for, on the record the ledger holds
LedgerTrusted(record, chainHeadBlock) ==
    /\ record.totalNetFlowRate = 0
    /\ record.poolMemberships = <<>>
    /\ record.updatedAtBlockNumber <= chainHeadBlock

\* C12: the planner classifies a ledger record Trusted (it does not hand the
\* account to the verifier) if and only if its net flow rate is zero, it has
\* no pool membership, connected or disconnected, and its last-update block
\* is at most the chain head read at planning time
C12_TrustedIffNoAccrual ==
    \A r \in RunsSeen :
        Planned(r) =>
            \A j \in DOMAIN ledger[r.key] :
                LET record == ledger[r.key][j] IN
                record.account \in PagedAccounts(r) =>
                    (record.account \notin Range(r.accounts)
                        <=> LedgerTrusted(record, r.currentBlockNumber))

\* C13: the accounts handed to the verifier are exactly those the planner
\* classified NeedsVerification; the two classes partition the paged
\* accounts; balance reads are issued for NeedsVerification accounts only
C13_VerifierGetsNeedsVerification ==
    \A r \in RunsSeen :
        /\ ~Planned(r) => r.readAccounts = {}
        /\ Planned(r) =>
              /\ Range(r.accounts) = NeedsVerificationAccounts(r)
              /\ TrustedAccounts(r) \cap NeedsVerificationAccounts(r) = {}
              /\ TrustedAccounts(r) \cup NeedsVerificationAccounts(r) = PagedAccounts(r)
              /\ r.readAccounts \subseteq NeedsVerificationAccounts(r)
              /\ r.readAccounts \cap TrustedAccounts(r) = {}

\* a run that read balances returned, and some of its accounts were Trusted
C13_Witness ==
    /\ PublishedSnapshot
    /\ event.run.readAccounts # {}
    /\ TrustedAccounts(event.run) # {}

\* C14: a published snapshot carries the block height pinned by the verifier
\* when an account needed verification, and the chain head read at planning
\* time when none did; in that case the run read no balance and did not read
\* the chain head again
C14_BlockNumberOfSnapshot ==
    PublishedSnapshot =>
        IF event.run.accounts # <<>>
        THEN /\ event.run.headReads = 1
             /\ event.published[1].blockNumber = event.run.pin
        ELSE /\ event.published[1].blockNumber = event.run.currentBlockNumber
             /\ event.run.balanceReads = 0
             /\ event.run.readAccounts = {}
             /\ event.run.headReads = 0

\* a snapshot with holders published without any verification
C14_Witness ==
    /\ PublishedSnapshot
    /\ event.run.accounts = <<>>
    /\ event.published[1].holders # <<>>
    /\ event.published[1].blockNumber = head

\* C15: every holder of a published snapshot whose balance is the ledger's
\* (Trusted) was last updated in the ledger at a block not after the
\* snapshot's blockNumber
C15_TrustedNotAfterSnapshotBlock ==
    PublishedSnapshot =>
        \A j \in DOMAIN event.run.snapshots :
            LET s == event.run.snapshots[j] IN
            (/\ UsesSubgraphData(s, event.run.currentBlockNumber)
             /\ s.account \in Addresses(event.published[1].holders))
                => s.updatedAtBlockNumber <= event.published[1].blockNumber

\* the chain head advanced between the planner's read and the verifier's
\* pin, and the snapshot shows a Trusted holder
C15_Witness ==
    /\ PublishedSnapshot
    /\ event.run.accounts # <<>>
    /\ event.run.pin > event.run.currentBlockNumber
    /\ \E a \in TrustedAccounts(event.run) : a \in Addresses(event.published[1].holders)

\* C16: against a ledger that holds n records and answers without errors,
\* queryAllPages has issued n \div pageSize + 1 requests when it returns, and
\* returns the n records, each once, in ascending order; while it is paging
\* it has received only full pages
C16_PagesAndRecords ==
    LET NoError(r) == r.queryFailures = 0 /\ r.errorLists = 0
        Paging(r) ==
            /\ Len(r.snapshots) = (r.pageRequests - 1) * pageSize
            /\ r.pageRequests <= (Len(ledger[r.key]) \div pageSize) + 1
        Returned(r) ==
            /\ r.pageRequests = (Len(ledger[r.key]) \div pageSize) + 1
            /\ [j \in DOMAIN r.snapshots |-> r.snapshots[j].account]
                  = [j \in DOMAIN ledger[r.key] |-> ledger[r.key][j].account]
            /\ IsAscending(r.snapshots)
    IN /\ \A p \in Passes :
             (InFlight(p) /\ NoError(runs[p])) =>
                 IF runs[p].pc = "queryAllPages" THEN Paging(runs[p]) ELSE Returned(runs[p])
       /\ (ReturnedSnapshot /\ NoError(event.run)) => Returned(event.run)

\* queryAllPages returned pageSize + 1 records after two requests
C16_Witness ==
    /\ ReturnedSnapshot
    /\ event.run.queryFailures = 0 /\ event.run.errorLists = 0
    /\ Len(event.run.snapshots) = pageSize + 1
    /\ event.run.pageRequests = 2

\* C17: a run one of whose page requests failed goes no further: it reads no
\* chain head and no balance, publishes nothing, and cache and files stay as
\* they are
C17_QueryErrorFailsRun ==
    [][ /\ \A p \in Passes : runs'[p].queryFailures = 0
        /\ (event'.op = "takeSnapshot" /\ event'.run.queryFailures > 0) =>
              /\ event'.outcome = "failed:query"
              /\ event'.run.currentBlockNumber = 0
              /\ event'.run.headReads = 0
              /\ event'.run.balanceReads = 0
              /\ event'.published = <<>>
              /\ tokenHoldersCache' = tokenHoldersCache
              /\ files' = files
      ]_vars

\* the request for the second page failed, after a first page of records
C17_Witness ==
    /\ ReturnedSnapshot
    /\ event.run.queryFailures = 1
    /\ event.run.pageRequests = 2
    /\ Len(event.run.snapshots) = pageSize

\* C18: a run one of whose page responses carried an error list fails: it
\* publishes no snapshot
C18_ErrorListFailsRun ==
    (ReturnedSnapshot /\ event.run.errorLists > 0) => event.published = <<>>

\* the reads of the call that have been issued and have not settled
InFlightReads == { a \in DOMAIN call.reads : call.reads[a].pc = "balanceOf" }

C20_InFlightWithinBatchSize ==
    call.pc = "Promise.all" => Cardinality(InFlightReads) <= RPC_BATCH_SIZE

\* the positions of the holders a threshold selects, and the place of a
\* selected position among them
Selected(holders, minBalanceWei) ==
    { j \in DOMAIN holders : holders[j].balance >= minBalanceWei }

PlaceOf(holders, minBalanceWei, j) ==
    Cardinality({ i \in Selected(holders, minBalanceWei) : i <= j })

\* C21: getTokenHolders returns exactly the holders at places offset + 1 to
\* offset + limit of the sub-sequence of the cached holders with balance >=
\* minBalanceWei, in the order of the snapshot, with the blockNumber and the
\* updatedAt of that snapshot
C21_PageOfSelectedHolders ==
    (event.op = "getTokenHolders" /\ tokenHoldersCache[event.key] # <<>>) =>
        LET cached == tokenHoldersCache[event.key][1]
            place(j) == PlaceOf(cached.holders, event.minBalanceWei, j)
            page == { j \in Selected(cached.holders, event.minBalanceWei) :
                        place(j) > event.offset /\ place(j) <= event.offset + event.limit }
        IN /\ event.result.blockNumber = cached.blockNumber
           /\ event.result.updatedAt = cached.updatedAt
           /\ Len(event.result.holders) = Cardinality(page)
           /\ \A j \in page :
                 event.result.holders[place(j) - event.offset] = cached.holders[j]

\* holders with 100 and 50, read with minBalanceWei 60: the holder with 100
\* alone is returned
C21_Witness ==
    /\ event.op = "getTokenHolders"
    /\ event.minBalanceWei = 60
    /\ event.offset = 0
    /\ event.limit = 2
    /\ tokenHoldersCache[event.key] # <<>>
    /\ LET holders == tokenHoldersCache[event.key][1].holders
       IN /\ Len(holders) = 2
          /\ holders[1].balance = 100
          /\ holders[2].balance = 50
          /\ event.result.holders = <<holders[1]>>

C23_FileMatchesCache ==
    \A k \in Keys :
        (tokenHoldersCache[k] # <<>> /\ ~ \E p \in Passes : InFlight(p) /\ runs[p].key = k) =>
            /\ loadTokenHolders(files[k]).blockNumber = tokenHoldersCache[k][1].blockNumber
            /\ loadTokenHolders(files[k]).holders = tokenHoldersCache[k][1].holders

RECURSIVE SumAt(_, _)
SumAt(f, S) ==
    IF S = {} THEN 0
    ELSE LET j == CHOOSE x \in S : TRUE IN f[j] + SumAt(f, S \ {j})

\* what the memberships of a record with the given connection state accrue
\* over deltaT
Accrued(snapshot, connected, deltaT) ==
    LET pms == snapshot.poolMemberships
    IN SumAt([m \in DOMAIN pms |-> pms[m].perUnitFlowRate * pms[m].units * deltaT],
             { m \in DOMAIN pms : pms[m].isConnected = <<connected>> })

ProjectedBalance == event.op = "calculateHolderBalance"
DeltaT == event.currentTimestamp - event.snapshot.updatedAtTimestamp

\* C25: with deltaT >= 0 calculateHolderBalance returns balance =
\* balanceUntilUpdatedAt + totalNetFlowRate * deltaT + the accrual of the
\* connected memberships, and claimableBalance = the accrual of the
\* disconnected memberships
C25_ProjectionFormula ==
    (ProjectedBalance /\ DeltaT >= 0) =>
        /\ event.result.balance =
              event.snapshot.balanceUntilUpdatedAt
                + event.snapshot.totalNetFlowRate * DeltaT
                + Accrued(event.snapshot, TRUE, DeltaT)
        /\ event.result.claimableBalance = Accrued(event.snapshot, FALSE, DeltaT)

\* a record with a flow, a connected and a disconnected membership that both
\* accrue, projected over a positive deltaT
C25_Witness ==
    /\ ProjectedBalance
    /\ DeltaT > 0
    /\ event.snapshot.totalNetFlowRate # 0
    /\ Accrued(event.snapshot, TRUE, DeltaT) > 0
    /\ Accrued(event.snapshot, FALSE, DeltaT) > 0
    /\ event.result.balance # event.snapshot.balanceUntilUpdatedAt
    /\ event.result.claimableBalance > 0

\* C26: with deltaT < 0 the projection subtracts nothing: the balance of a
\* record with a positive flow rate or a positive connected accrual rate is
\* not below balanceUntilUpdatedAt, and claimableBalance is not negative
C26_NoNegativeAccrual ==
    (ProjectedBalance /\ DeltaT < 0) =>
        /\ (event.snapshot.totalNetFlowRate > 0 \/ Accrued(event.snapshot, TRUE, 1) > 0)
              => event.result.balance >= event.snapshot.balanceUntilUpdatedAt
        /\ event.result.claimableBalance >= 0

\* the ways a takeSnapshot call completes normally
Completions ==
    {"published", "saveFailed", "failed:query", "failed:flowRate", "failed:head", "failed:pin"}

\* C27: takeSnapshot never lets an error out: whatever failed (a ledger
\* request, a chain-head read, balance reads, the write of the file) the call
\* completes normally, the scheduler goes on, and the next tick can start a
\* new run for the same key
C27_ErrorsStayInside ==
    ReturnedSnapshot =>
        /\ event.outcome \in Completions
        /\ phase \in {"startup", "scheduled"}
        /\ ~InFlight(event.pass) \/ runs[event.pass].pc = "queryAllPages"
        /\ (phase = "scheduled" /\ MayStart) =>
              /\ event.run.key \in Range(KeyOrder)
              /\ ENABLED Tick

\* after the startup run failed, a tick has started a new run for the key,
\* and that run failed as well: nothing was ever published
C27_Witness ==
    /\ ReturnedSnapshot
    /\ event.outcome \in {"failed:query", "failed:head", "failed:pin"}
    /\ phase = "scheduled"
    /\ event.run.entryBefore = 0
    /\ event.pass = 1
    /\ \E p \in Passes : p # event.pass /\ InFlight(p) /\ runs[p].key = event.run.key
                         /\ runs[p].entryBefore = 0
    /\ now = 1

VerifierCallReturns == (call.pc # "none") ~> (call.pc \in {"returned", "threw"})

\* C29: a snapshot in the table is never changed in place: under reads and
\* under the steps of runs in flight the entry of a key keeps its holders,
\* its blockNumber and its updatedAt, until a publishing run or the startup
\* load replaces it by a snapshot built as a whole
C29_EntryReplacedAsAWhole ==
    [][\A k \in Keys :
          tokenHoldersCache'[k] # tokenHoldersCache[k] =>
             /\ built'[k] # <<>>
             /\ tokenHoldersCache'[k] = <<built'[k][1]>>
             /\ \/ phase = "boot"
                \/ /\ event'.op = "takeSnapshot"
                   /\ event'.run.key = k
                   /\ event'.published = tokenHoldersCache'[k]]_vars

\* a read of a published snapshot while a run that started under this very
\* entry is still in flight
C29_Witness ==
    /\ event.op = "getTokenHolders"
    /\ event.result.updatedAt >= 2
    /\ event.result.holders # <<>>
    /\ tokenHoldersCache[event.key] = <<built[event.key][1]>>
    /\ \E p \in Passes : /\ runs[p].pc \in {"getBlockNumber", "pin"}
                         /\ runs[p].key = event.key
                         /\ runs[p].entryBefore = event.result.updatedAt

\* C30: a holders request that omits minBalanceWei is answered with the page
\* of the same request with minBalanceWei = 0, whatever snapshot the table
\* holds
C30_OmittedThresholdIsZero ==
    \A k \in Keys, limitParam \in {<<>>, <<1>>, <<MaxPage>>}, offsetParam \in {<<>>, <<1>>} :
        holdersRoute(tokenHoldersCache, k, limitParam, offsetParam, <<>>)
            = holdersRoute(tokenHoldersCache, k, limitParam, offsetParam, <<0>>)

\* the stage of a run: Paginating, Planning, Verifying (the pin and the
\* batches); assembly and publication are the end of its last step
Stage(pc) ==
    CASE pc = "idle" -> 0
      [] pc = "queryAllPages" -> 1
      [] pc = "getBlockNumber" -> 2
      [] pc = "pin" -> 3
      [] pc = "batch" -> 4
      [] OTHER -> 5

\* the last page a run received was not a full one, or carried an error list
PagingOver(r) ==
    \/ r.errorLists > 0
    \/ Len(r.snapshots) < r.pageRequests * pageSize

\* C31: the stages of a run come in order: a step of a run stays in its
\* stage or enters the next one; pages are requested only while paginating;
\* balance reads are issued only in the batch loop, after the last page has
\* been received; and the run publishes only when every batch has settled
C31_StagesInOrder ==
    [][\A p \in Passes :
          LET before == runs[p]
              returned == event'.op = "takeSnapshot" /\ event'.pass = p
              after == IF returned THEN event'.run ELSE runs'[p]
          IN (InFlight(p) /\ runs'[p] # runs[p]) =>
                /\ ~returned =>
                      Stage(after.pc) \in {Stage(before.pc), Stage(before.pc) + 1}
                /\ after.pageRequests > before.pageRequests => before.pc = "queryAllPages"
                /\ after.balanceReads > before.balanceReads =>
                      /\ before.pc = "batch"
                      /\ PagingOver(before)
                      /\ after.snapshots = before.snapshots
                /\ (returned /\ event'.published # <<>>) =>
                      /\ before.pc \in {"getBlockNumber", "batch"}
                      /\ before.pc = "getBlockNumber" => after.accounts = <<>>
                      /\ after.i >= Len(after.accounts)
                      /\ after.readAccounts = Range(after.accounts)
                      /\ PagingOver(after)
      ]_vars

\* a run published after two pages and two batches of balance reads
C31_Witness ==
    /\ PublishedSnapshot
    /\ event.outcome = "published"
    /\ event.run.pageRequests = 2
    /\ event.run.i > RPC_BATCH_SIZE
    /\ Len(event.run.accounts) > RPC_BATCH_SIZE
    /\ event.run.readAccounts = Range(event.run.accounts)

\* C32: a run has one page request outstanding at a time: the first carries
\* the empty cursor, and each further one is issued in the step that received
\* a full page in answer to the previous one, with the id of the last record
\* of that page as its cursor, which is greater than the previous cursor
C32_PagesInSequence ==
    [][\A p \in Passes :
          LET before == runs[p]
              after == runs'[p]
          IN /\ (after.pc = "queryAllPages" /\ after.pageRequests = 1) =>
                   /\ after.lastId = 0
                   /\ after.snapshots = <<>>
             /\ (after.pc = "queryAllPages" /\ after.pageRequests > 1) =>
                   Len(after.snapshots) = (after.pageRequests - 1) * pageSize
             /\ after.pageRequests > 1 =>
                   after.pageRequests \in {before.pageRequests, before.pageRequests + 1}
             /\ (after.pageRequests > 1 /\ after.pageRequests = before.pageRequests + 1) =>
                   /\ before.pc = "queryAllPages"
                   /\ after.pc = "queryAllPages"
                   /\ SubSeq(after.snapshots, 1, Len(before.snapshots)) = before.snapshots
                   /\ after.lastId = after.snapshots[Len(after.snapshots)].account
                   /\ after.lastId > before.lastId
                   /\ \A j \in (Len(before.snapshots) + 1)..Len(after.snapshots) :
                         after.snapshots[j].account > before.lastId
      ]_vars

\* the second request of a run is outstanding, with the id of the last
\* record of the first page as its cursor
C32_Witness ==
    \E p \in Passes :
        /\ runs[p].pc = "queryAllPages"
        /\ runs[p].pageRequests = 2
        /\ Len(runs[p].snapshots) = pageSize
        /\ runs[p].lastId = runs[p].snapshots[pageSize].account
        /\ runs[p].lastId > 0

\* Math.ceil(n / batchSize)
CeilDiv(n, d) == (n + d - 1) \div d

\* C33: batchFetchBalances reads the account at place j of its input in
\* batch number ceil(j / batchSize), and in no other: the batches are
\* contiguous, in input order, of at most batchSize accounts.  When it
\* returns, batchCount is ceil(n / batchSize), whether batches failed or not,
\* the accounts of balances are input accounts, and they are all the input
\* accounts when no read has failed
C33_BatchesPartitionAccounts ==
    LET n == Len(call.accounts) IN
    /\ DOMAIN call.reads \subseteq Range(call.accounts)
    /\ \A j \in 1..n :
          call.accounts[j] \in DOMAIN call.reads =>
              call.reads[call.accounts[j]].batch = CeilDiv(j, RPC_BATCH_SIZE)
    /\ \A b \in 1..call.batchCount :
          Cardinality({ j \in 1..n : call.accounts[j] \in DOMAIN call.reads
                                      /\ call.reads[call.accounts[j]].batch = b })
              \in 1..RPC_BATCH_SIZE
    /\ call.batchCount <= CeilDiv(n, RPC_BATCH_SIZE)
    /\ DOMAIN call.balances \subseteq Range(call.accounts)
    /\ call.pc = "returned" =>
          /\ call.batchCount = CeilDiv(n, RPC_BATCH_SIZE)
          /\ DOMAIN call.reads = Range(call.accounts)
          /\ (\A a \in DOMAIN call.reads : call.reads[a].pc = "fulfilled") =>
                DOMAIN call.balances = Range(call.accounts)

\* a call with three accounts returned after two batches, the first of
\* which failed: balances holds the account of the second batch only
C33_Witness ==
    /\ call.pc = "returned"
    /\ Len(call.accounts) = RPC_BATCH_SIZE + 1
    /\ call.batchCount = 2
    /\ \E a \in DOMAIN call.reads : call.reads[a].pc = "rejected" /\ call.reads[a].batch = 1
    /\ DOMAIN call.balances = {call.accounts[RPC_BATCH_SIZE + 1]}

\* the spellings of the addresses of the configured tokens
SpellingsOf(k) == { s \in Spellings : toLowerCase(s) = k }

\* C34: a step changes the cache entry or the file of a token only if it is
\* the startup load, which gives every token the record of its own file, or
\* the publication of a run for that token; no entry or file appears under
\* another key; and an address written in capital letters reads, updates and
\* saves the entry and the file of the same address in lower case
C34_OnlyTheEntryOfItsKey ==
    [][ /\ DOMAIN tokenHoldersCache' = DOMAIN tokenHoldersCache
        /\ DOMAIN files' = DOMAIN files
        /\ (phase = "boot" /\ phase' # "boot") =>
              \A k \in Keys : tokenHoldersCache'[k] = <<loadTokenHolders(files[k])>>
        /\ \A k \in Keys :
              LET publishedFor ==
                      /\ event'.op = "takeSnapshot"
                      /\ event'.published # <<>>
                      /\ toLowerCase(event'.run.key) = k
              IN /\ tokenHoldersCache'[k] # tokenHoldersCache[k] =>
                        phase = "boot" \/ (publishedFor /\ tokenHoldersCache'[k] = event'.published)
                 /\ files'[k] # files[k] =>
                        publishedFor /\ loadTokenHolders(files'[k]) = event'.published[1]
        /\ \A k \in Keys : \A s \in SpellingsOf(k) :
              /\ updateTokenHoldersCache(tokenHoldersCache', s, EmptySnapshot)
                    = [tokenHoldersCache' EXCEPT ![k] = <<EmptySnapshot>>]
              /\ saveTokenHolders(files', s, <<>>, 0, 0)
                    = [files' EXCEPT ![k] = << [updatedAt |-> 0, blockNumber |-> 0, holders |-> <<>>] >>]
              /\ fileOf(files', s) = files'[k]
              /\ \A minBalanceWei \in {0, 1} :
                    getTokenHolders(tokenHoldersCache', s, MaxHolders, 0, minBalanceWei)
                       = getTokenHolders(tokenHoldersCache', k, MaxHolders, 0, minBalanceWei)
      ]_vars

\* a run for one token published holders while the entry and the file of
\* another token hold other holders
C34_Witness ==
    /\ PublishedSnapshot
    /\ event.outcome = "published"
    /\ event.published[1].holders # <<>>
    /\ \E k \in Keys :
          /\ k # event.run.key
          /\ tokenHoldersCache[k] # <<>>
          /\ tokenHoldersCache[k][1].holders # <<>>
          /\ tokenHoldersCache[k][1].holders # event.published[1].holders
          /\ files[k] # <<>>

\* C35: after the startup load, the blockNumber of the cache entry of a
\* token never decreases (the chain head of the model never does)
C35_BlockNumberNeverDecreases ==
    [][\A k \in Keys :
          (phase # "boot" /\ tokenHoldersCache[k] # <<>> /\ tokenHoldersCache'[k] # <<>>) =>
              tokenHoldersCache'[k][1].blockNumber >= tokenHoldersCache[k][1].blockNumber
      ]_vars

\* C36: a getTokenHolders read of a token that has no entry in the table
\* returns updatedAt 0, blockNumber 0 and no holders, whatever limit, offset
\* and minBalanceWei, and the table has no entry for the token afterwards
C36_ReadOfMissingEntry ==
    [][(event'.op = "getTokenHolders" /\ tokenHoldersCache[toLowerCase(event'.key)] = <<>>) =>
          /\ event'.result.updatedAt = 0
          /\ event'.result.blockNumber = 0
          /\ event'.result.holders = <<>>
          /\ tokenHoldersCache'[toLowerCase(event'.key)] = <<>>
          /\ tokenHoldersCache' = tokenHoldersCache
      ]_vars

\* a read with a positive limit and the threshold 0 of a token without entry
C36_Witness ==
    /\ event.op = "getTokenHolders"
    /\ tokenHoldersCache[toLowerCase(event.key)] = <<>>
    /\ event.limit = MaxPage
    /\ event.offset = 0
    /\ event.minBalanceWei = 0
    /\ event.result = EmptySnapshot

\* C37: in every response of the holders route, total is the number of
\* holders of the response, and that number is at most min(limit, 1000000),
\* the limit the response reports
C37_TotalWithinLimit ==
    event.op = "GET holders" =>
        /\ event.response.total = Len(event.response.holders)
        /\ Len(event.response.holders) <= event.response.limit

\* the tokens whose durable record is older than UPDATE_INTERVAL at the
\* clock reading of the start; a missing record reads as updatedAt 0
OlderThanInterval(clock) ==
    { k \in Keys : clock - (IF files[k] = <<>> THEN 0 ELSE files[k][1].updatedAt) > UPDATE_INTERVAL }

\* the tokens a startup still has to refresh: the one in flight and the
\* ones after it
StartupQueue(r) == IF r.pc = "idle" THEN <<>> ELSE <<r.key>> \o r.todo

RECURSIVE SumConnected(_)
SumConnected(pms) ==
    IF pms = <<>> THEN 0
    ELSE (IF Head(pms).isConnected = <<TRUE>>
          THEN Head(pms).perUnitFlowRate * Head(pms).units
          ELSE 0) + SumConnected(Tail(pms))

\* C39: a run that was not stopped by a failed request publishes, also over
\* a ledger in which an account has a pool membership, and the netFlowRate
\* of every holder it publishes is the totalNetFlowRate of the account's
\* ledger record plus the flow of its connected pool memberships
C39_PublishesNetFlowRateWithPools ==
    (ReturnedSnapshot /\ event.outcome \notin {"failed:query", "failed:head", "failed:pin"}) =>
        /\ event.published # <<>>
        /\ \A j \in DOMAIN event.published[1].holders :
              \E i \in DOMAIN ledger[event.run.key] :
                  /\ ledger[event.run.key][i].account = event.published[1].holders[j].address
                  /\ event.published[1].holders[j].netFlowRate =
                         ledger[event.run.key][i].totalNetFlowRate
                             + SumConnected(ledger[event.run.key][i].poolMemberships)

====
